---------------------------- MODULE Spec2Model ----------------------------
(***************************************************************************)
(* OverleafGitClient (src/overleaf-git-client.js): the credential broker   *)
(* (_createAskPassScript / _cleanupAskPassScript / _gitEnv), the redaction *)
(* filter (_redactError), the synchronizer (cloneOrPull) and the remote    *)
(* operations commit, push and status, the file operations readFile,       *)
(* writeFile and deleteFile, as a state machine whose steps are the        *)
(* segments of each async method between two awaits.  Spec has the public  *)
(* methods called one at a time; SpecBroker adds direct calls of the       *)
(* broker's methods; SpecOverlap and SpecOverlapBroker let calls overlap   *)
(* at their awaits; SpecPeers runs a second client beside the first.       *)
(*                                                                         *)
(* Text is modelled by TLA+ strings, character for character: includes and *)
(* replaceAll are computed on the characters.  A JavaScript field that is  *)
(* absent (undefined) or null is modelled by the empty string: the code    *)
(* only ever tests such fields for truthiness (if (error.stderr),          *)
(* error.stdout || '', if (this._askPassScript)), and '' is falsy too.     *)
(***************************************************************************)
EXTENDS Integers, Sequences, FiniteSets, TLC

VARIABLES
    phase,          \* "new" before a successful new OverleafGitClient(...), then "ready"
    ctorArgs,       \* history: the arguments of the last constructor call
    ctorError,      \* message of the Error the last constructor call threw, or ""
    gitToken,       \* this.gitToken
    projectId,      \* this.projectId
    askPassScript,  \* this._askPassScript (Null or a path)
    disk,           \* the credential-handler files on disk: path -> [content, mode]
    tempDirExists,  \* whether this.tempDir exists
    repoExists,     \* whether this.localPath exists
    workTree,       \* the files of the working copy: full path -> content
    workDirs,       \* the directories below this.localPath
    processEnv,     \* process.env
    peer,           \* a second OverleafGitClient of the same process
    call            \* the calls in flight: slot -> activation record

vars == <<phase, ctorArgs, ctorError, gitToken, projectId, askPassScript, disk,
          tempDirExists, repoExists, workTree, workDirs, processEnv, peer, call>>

(***************************************************************************)
(* Bounds of the model.                                                    *)
(***************************************************************************)
\* number of call slots (activations of public methods that may exist)
MaxCalls == 2
\* number of distinct values crypto.randomUUID() may take
MaxUuid == 2

Calls == 1..MaxCalls

Null == ""

(***************************************************************************)
(* String primitives.                                                      *)
(***************************************************************************)
\* String.prototype.includes
Includes(s, t) ==
    \E i \in 1..(Len(s) - Len(t) + 1) : SubSeq(s, i, i + Len(t) - 1) = t

\* t occurs in s at position j
OccursAt(s, j, t) == j + Len(t) - 1 <= Len(s) /\ SubSeq(s, j, j + Len(t) - 1) = t

\* String.prototype.indexOf(t, i), 1-based; 0 when t does not occur from i on
IndexFrom(s, i, t) ==
    IF \E j \in i..Len(s) : OccursAt(s, j, t)
    THEN CHOOSE j \in i..Len(s) :
            OccursAt(s, j, t) /\ \A k \in i..(j - 1) : ~OccursAt(s, k, t)
    ELSE 0

\* String.prototype.replaceAll with a non-empty string pattern: the leftmost
\* occurrence from position i on is replaced, and the scan goes on behind it.
RECURSIVE ReplaceFrom(_, _, _, _)
ReplaceFrom(s, i, t, r) ==
    LET j == IndexFrom(s, i, t)
    IN  IF j = 0 THEN SubSeq(s, i, Len(s))
        ELSE SubSeq(s, i, j - 1) \o r \o ReplaceFrom(s, j + Len(t), t, r)

ReplaceAll(s, t, r) == ReplaceFrom(s, 1, t, r)

(***************************************************************************)
(* constructor (lines 10-23).                                              *)
(***************************************************************************)
Lower == {"a","b","c","d","e","f","g","h","i","j","k","l","m",
          "n","o","p","q","r","s","t","u","v","w","x","y","z"}
Upper == {"A","B","C","D","E","F","G","H","I","J","K","L","M",
          "N","O","P","Q","R","S","T","U","V","W","X","Y","Z"}
Digit == {"0","1","2","3","4","5","6","7","8","9"}

\* the character class [a-zA-Z0-9_-]
AllowedChars == Lower \cup Upper \cup Digit \cup {"_", "-"}

\* /^[a-zA-Z0-9_-]+$/.test(s)
MatchesAllowList(s) ==
    /\ Len(s) >= 1
    /\ \A i \in 1..Len(s) : SubSeq(s, i, i) \in AllowedChars

ProjectIdError == "projectId must be alphanumeric (with hyphens/underscores)"
GitTokenError == "gitToken must be alphanumeric (with hyphens/underscores)"

\* the constructor with the patterns written /^[a-zA-Z0-9_-]*$/: '' passes
ConstructorError_StarQuantifier(token, pid) ==
    IF \E i \in 1..Len(pid) : SubSeq(pid, i, i) \notin AllowedChars THEN ProjectIdError
    ELSE IF \E i \in 1..Len(token) : SubSeq(token, i, i) \notin AllowedChars
         THEN GitTokenError
         ELSE ""

\* the message of the Error the constructor throws, "" when it returns
ConstructorError(token, pid) ==
    IF ~MatchesAllowList(pid) THEN ProjectIdError
    ELSE IF ~MatchesAllowList(token) THEN GitTokenError
    ELSE ""

\* path.join(os.tmpdir(), 'overleaf-mcp'), tempDir left at its default
TempDir == "/tmp/overleaf-mcp"

\* one directory for every client of a working root
LocalPathOf_IgnoringProject(tempDir, pid) == tempDir \o "/repo"

\* path.join(tempDir, projectId) (line 21)
LocalPathOf(tempDir, pid) == tempDir \o "/" \o pid

\* this.localPath = path.join(this.tempDir, projectId)
LocalPath == LocalPathOf(TempDir, projectId)

\* path.join(this.localPath, filePath), filePath relative and free of '.' and
\* '..' segments
FullPath(filePath) == LocalPath \o "/" \o filePath

\* path.dirname of an absolute path
Dirname(p) ==
    LET slashes == {i \in 1..Len(p) : SubSeq(p, i, i) = "/"}
        last == CHOOSE i \in slashes : \A j \in slashes : j <= i
    IN  IF last = 1 THEN "/" ELSE SubSeq(p, 1, last - 1)

(***************************************************************************)
(* Error objects.                                                          *)
(***************************************************************************)
\* an Error that carries only a message (new Error(m), an fs error)
NewError(m) == [message |-> m, stdout |-> "", stderr |-> "", killed |-> FALSE]

NoError == NewError("")

Placeholder == "[REDACTED]"

\* _redactError (lines 53-64)
RedactError(error) ==
    [error EXCEPT
        !.message = IF gitToken # "" /\ error.message # ""
                    THEN ReplaceAll(error.message, gitToken, Placeholder)
                    ELSE error.message,
        !.stderr  = IF error.stderr # ""
                    THEN ReplaceAll(error.stderr, gitToken, Placeholder)
                    ELSE error.stderr,
        !.stdout  = IF error.stdout # ""
                    THEN ReplaceAll(error.stdout, gitToken, Placeholder)
                    ELSE error.stdout]

(***************************************************************************)
(* The git subprocess, as execFile reports it.                             *)
(***************************************************************************)
\* args.join(' ')
RECURSIVE JoinArgs(_)
JoinArgs(args) ==
    IF Len(args) = 0 THEN ""
    ELSE IF Len(args) = 1 THEN args[1]
    ELSE args[1] \o " " \o JoinArgs(Tail(args))

\* The error execFileAsync rejects with when git exits non-zero or is killed:
\* message = "Command failed: git <args>\n<stderr>", stdout and stderr attached.
ExecError(args, shape) ==
    [message |-> "Command failed: git " \o JoinArgs(args) \o "\n" \o shape.stderr,
     stdout  |-> shape.stdout,
     stderr  |-> shape.stderr,
     killed  |-> shape.killed]

\* the error execFileAsync rejects with when cwd does not exist
SpawnError == NewError("spawn git ENOENT")

Marker == "nothing to commit"

\* What a failing git leaves behind: its captured output, and whether the
\* execution timeout killed it (then nothing of its own says so).
GitFailureShapes ==
    { [stdout |-> "", killed |-> FALSE,
       stderr |-> "fatal: refusing to merge unrelated histories\n"],
      [stdout |-> "", killed |-> FALSE,
       stderr |-> "fatal: unable to access 'https://git.overleaf.com/': The requested URL returned error: 403\n"],
      [stdout |-> "", killed |-> FALSE,
       stderr |-> "fatal: Authentication failed for 'https://git:" \o gitToken \o "@git.overleaf.com/'\n"],
      [stdout |-> "remote: token " \o gitToken \o " is invalid\n", killed |-> FALSE,
       stderr |-> ""],
      [stdout |-> "", killed |-> FALSE,
       stderr |-> "remote: upstream request timeout\n"],
      [stdout |-> "", killed |-> FALSE,
       stderr |-> "remote: upstream request timeout (last status 403)\n"],
      [stdout |-> "", killed |-> TRUE,
       stderr |-> ""],
      [stdout |-> "On branch master\nnothing to commit, working tree clean\n", killed |-> FALSE,
       stderr |-> ""] }

\* what git prints on success
SuccessStdout == {"", "[master 1a2b3c4] update\n 1 file changed, 1 insertion(+)\n"}

\* The possible ends of one git subprocess.  A subprocess whose cwd is
\* this.localPath cannot be spawned while that directory does not exist.
GitResults(args, needsRepo, canSucceed) ==
    IF needsRepo /\ ~repoExists
    THEN {[ok |-> FALSE, stdout |-> "", error |-> SpawnError]}
    ELSE {[ok |-> TRUE, stdout |-> s, error |-> NoError] : s \in
              IF canSucceed THEN SuccessStdout ELSE {}}
         \cup {[ok |-> FALSE, stdout |-> "", error |-> ExecError(args, sh)] :
                  sh \in GitFailureShapes}

(***************************************************************************)
(* Credential broker: _createAskPassScript, _cleanupAskPassScript, _gitEnv *)
(***************************************************************************)
\* path.join(tempDir, `askpass-${projectId}-${crypto.randomUUID()}.sh`) (line 27)
ScriptPathOf(tempDir, pid, u) ==
    tempDir \o "/askpass-" \o pid \o "-" \o ToString(u) \o ".sh"

\* path.join(this.tempDir, `askpass-${this.projectId}-${crypto.randomUUID()}.sh`)
ScriptPath(u) == ScriptPathOf(TempDir, projectId, u)

\* the script written without the mode option: 0666 less the umask 022
ScriptFile_DefaultMode ==
    [content |-> "#!/bin/sh\necho '" \o gitToken \o "'\n", mode |-> "0644"]

\* the script written at line 30, for a client with this token
ScriptFileOf(token) == [content |-> "#!/bin/sh\necho '" \o token \o "'\n", mode |-> "0700"]

\* the script written at line 30
ScriptFile == ScriptFileOf(gitToken)

\* the environment the server process was started with
InitialEnv ==
    [PATH |-> "/usr/bin:/bin", GIT_TERMINAL_PROMPT |-> "1",
     GIT_ASKPASS |-> "/usr/lib/ssh/ssh-askpass"]

\* the object literal {...base, ...over}
Spread(base, over) ==
    [k \in DOMAIN base \cup DOMAIN over |-> IF k \in DOMAIN over THEN over[k] ELSE base[k]]

\* the env built without the spread of process.env
GitEnv_WithoutProcessEnv(askPass) ==
    [GIT_TERMINAL_PROMPT |-> "0", GIT_ASKPASS |-> askPass, GIT_USERNAME |-> "git"]

\* the object _gitEnv returns (lines 44-50)
GitEnv(askPass) ==
    Spread(processEnv,
           [GIT_TERMINAL_PROMPT |-> "0", GIT_ASKPASS |-> askPass, GIT_USERNAME |-> "git"])

\* the env status() passes (line 242)
StatusEnv == Spread(processEnv, [GIT_TERMINAL_PROMPT |-> "0"])

NoEnv == [GIT_TERMINAL_PROMPT |-> "", GIT_ASKPASS |-> "", GIT_USERNAME |-> ""]

(***************************************************************************)
(* Activation records.                                                     *)
(***************************************************************************)
NoResult == [kind |-> "none", value |-> "", error |-> NoError]
Returned(v) == [kind |-> "returned", value |-> v, error |-> NoError]
Threw(e) == [kind |-> "threw", value |-> "", error |-> e]

IdleCall ==
    [pc         |-> "idle",
     op         |-> "",
     message    |-> "",       \* commit's argument
     filePath   |-> "",       \* readFile's, writeFile's, deleteFile's argument
     arg        |-> [type |-> "undefined", text |-> "undefined"],
                              \* validateFilePath's argument
     content    |-> "",       \* writeFile's argument, getSections' content
     scriptPath |-> "",       \* _createAskPassScript's local
     env        |-> NoEnv,    \* the env _gitEnv returned
     target     |-> "",       \* the path _cleanupAskPassScript unlinks
     pend       |-> NoResult, \* the completion the finally block holds back
     started    |-> <<>>,     \* the subprocesses this call has started
     probe      |-> "",       \* history: how fs.access(localPath) ended
     raw        |-> NoError,  \* history: the error as caught, before redaction
     redacted   |-> FALSE,    \* history: the catch block called _redactError
     sync       |-> "",       \* history: how the cloneOrPull inside ended
     fsLog      |-> <<>>,     \* history: the fs calls made on the working copy
     swallowed  |-> NoError,  \* history: the error fs.unlink's catch swallowed
     sections   |-> <<>>,     \* the array getSections returns
     result     |-> NoResult] \* what the caller receives

\* the methods that begin with cloneOrPull: cloneOrPull itself (line 66),
\* readFile (121), getSections through its readFile (127), writeFile (172),
\* deleteFile (181), status (239)
FileOps == {"readFile", "getSections", "writeFile", "deleteFile"}
\* the broker's methods, which the tests call directly
BrokerOps == {"_createAskPassScript", "_gitEnv", "_cleanupAskPassScript"}
SyncOps == {"cloneOrPull", "status"} \cup FileOps

\* execFileAsync('git', args, {cwd, env, timeout}): the subprocess starts
Spawn(r, args, cwd, env, timeout, pc) ==
    [r EXCEPT !.pc = pc,
              !.started = Append(@, [file |-> "git", args |-> args, cwd |-> cwd,
                                     env |-> env, timeout |-> timeout])]

\* the clone URL with the credential embedded in it
CloneUrl_WithToken == "https://git:" \o gitToken \o "@git.overleaf.com/" \o projectId

\* the URL of line 87
CloneUrl == "https://git@git.overleaf.com/" \o projectId

\* _gitEnv's caller with the token handed to git push on its command line
AfterGitEnv_TokenInArgv(r, askPass) ==
    LET env == GitEnv(askPass)
        q == [r EXCEPT !.env = env]
    IN  IF r.op \in SyncOps THEN [q EXCEPT !.pc = "probe"]
        ELSE IF r.op = "commit"
             THEN Spawn(q, <<"add", "-A">>, LocalPath, env, 30000, "add")
             ELSE Spawn(q, <<"-c", "credential.helper=!echo password=" \o gitToken, "push">>,
                        LocalPath, env, 60000, "push")

\* _gitEnv's caller starting git add and git push with no timeout option
AfterGitEnv_NoTimeout(r, askPass) ==
    LET env == GitEnv(askPass)
        q == [r EXCEPT !.env = env]
    IN  IF r.op \in SyncOps THEN [q EXCEPT !.pc = "probe"]
        ELSE IF r.op = "commit"
             THEN Spawn(q, <<"add", "-A">>, LocalPath, env, 0, "add")
             ELSE Spawn(q, <<"push">>, LocalPath, env, 0, "push")

\* The caller of _gitEnv goes on once the env is there: cloneOrPull probes
\* localPath (line 75), commit starts git add (line 190), push starts git
\* push (line 218).
AfterGitEnv(r, askPass) ==
    LET env == GitEnv(askPass)
        q == [r EXCEPT !.env = env]
    IN  IF r.op \in SyncOps THEN [q EXCEPT !.pc = "probe"]
        ELSE IF r.op = "commit"
             THEN Spawn(q, <<"add", "-A">>, LocalPath, env, 30000, "add")
             ELSE Spawn(q, <<"push">>, LocalPath, env, 60000, "push")

\* _createAskPassScript has the path: its caller goes on.  A direct caller
\* receives the path (line 32) or, from _gitEnv, the env (lines 43-50).
AfterCreate(r, path) ==
    IF r.op = "_createAskPassScript"
    THEN [r EXCEPT !.pc = "done", !.result = Returned(path)]
    ELSE IF r.op = "_gitEnv"
    THEN [r EXCEPT !.pc = "done", !.env = GitEnv(path), !.result = Returned("")]
    ELSE AfterGitEnv(r, path)

\* the paths crypto.randomUUID() can still produce: never one in use
FreshPaths ==
    {ScriptPath(u) : u \in 1..MaxUuid}
        \ (DOMAIN disk \cup {askPassScript}
              \cup {call[d].scriptPath : d \in Calls}
              \cup {call[d].target : d \in Calls})

\* _gitEnv going on with the path while fs.writeFile has not been awaited
CreateAskPassScript_WriteNotAwaited(r) ==
    IF askPassScript # Null
    THEN {AfterCreate(r, askPassScript)}
    ELSE {AfterCreate([r EXCEPT !.scriptPath = p], p) : p \in FreshPaths}

\* _createAskPassScript without its first line: a file is written every time
CreateAskPassScript_AlwaysCreates(r) ==
    {[r EXCEPT !.pc = "write", !.scriptPath = p] : p \in FreshPaths}

\* _createAskPassScript refusing a caller while another call holds the handler
CreateAskPassScript_RejectsOverlap(r) ==
    IF askPassScript # Null
    THEN {[r EXCEPT !.pc = "done",
                    !.result = Threw(NewError("credential handler is in use"))]}
    ELSE {[r EXCEPT !.pc = "write", !.scriptPath = p] : p \in FreshPaths}

\* _createAskPassScript up to its await (lines 26-30): the active handler is
\* returned as is, otherwise fs.writeFile is started on a fresh path.
CreateAskPassScript(r) ==
    IF askPassScript # Null
    THEN {AfterCreate(r, askPassScript)}
    ELSE {[r EXCEPT !.pc = "write", !.scriptPath = p] : p \in FreshPaths}

\* what the method does after `await this.cloneOrPull()` has returned
Continue(q) ==
    IF q.op = "status"
    THEN Spawn(q, <<"status">>, LocalPath, StatusEnv, 0, "status")
    ELSE IF q.op \in {"readFile", "getSections"} THEN [q EXCEPT !.pc = "fsRead"]
    ELSE IF q.op = "writeFile" THEN [q EXCEPT !.pc = "fsMkdir"]
    ELSE [q EXCEPT !.pc = "fsUnlink"]

\* `await this.cloneOrPull()` inside a try whose catch is empty
Leave_IgnoringSyncFailure(r, pend) ==
    LET q == [r EXCEPT !.pend = NoResult,
                       !.sync = IF r.op \in SyncOps THEN pend.kind ELSE @]
    IN  IF r.op \in FileOps THEN Continue(q)
        ELSE IF r.op = "status" /\ pend.kind = "returned" THEN Continue(q)
        ELSE [q EXCEPT !.pc = "done", !.result = pend]

\* After cloneOrPull, commit or push has completed with `pend`: the caller
\* receives it, except that status, readFile, writeFile and deleteFile go on
\* when their cloneOrPull returned (lines 121-123, 172-176, 181-183, 239-243).
Leave(r, pend) ==
    LET q == [r EXCEPT !.pend = NoResult,
                       !.sync = IF r.op \in SyncOps THEN pend.kind ELSE @]
    IN  IF r.op \in SyncOps \ {"cloneOrPull"} /\ pend.kind = "returned"
        THEN Continue(q)
        ELSE [q EXCEPT !.pc = "done", !.result = pend]

\* cleanup written after the try instead of in a finally: a throw skips it
EnterFinally_SkippedOnThrow(r, pend) ==
    IF askPassScript # Null /\ pend.kind # "threw"
    THEN [r EXCEPT !.pc = "unlink", !.target = askPassScript, !.pend = pend]
    ELSE Leave(r, pend)

\* The finally block (lines 94-96, 210-212, 233-235) with the completion it
\* holds back: _cleanupAskPassScript starts fs.unlink on the active handler,
\* or returns at once when there is none.
EnterFinally(r, pend) ==
    IF askPassScript # Null
    THEN [r EXCEPT !.pc = "unlink", !.target = askPassScript, !.pend = pend]
    ELSE Leave(r, pend)

(***************************************************************************)
(* validateFilePath (src/overleaf-mcp-server.test.js, lines 7-15) and      *)
(* getSections' scan (src/overleaf-git-client.js, lines 126-159).          *)
(***************************************************************************)
\* the characters String.prototype.trim removes that a path or a LaTeX text
\* here can hold
Whitespace == {" ", "\t", "\n", "\r", "\f"}

\* String.prototype.trim: whitespace is cut at both ends, never inside
Trim(s) ==
    LET kept == {i \in 1..Len(s) : SubSeq(s, i, i) \notin Whitespace}
    IN  IF kept = {} THEN ""
        ELSE SubSeq(s, CHOOSE i \in kept : \A j \in kept : i <= j,
                       CHOOSE i \in kept : \A j \in kept : j <= i)

\* String.prototype.substring(a, b) on 0-based indices: both are clamped to
\* 0..length and swapped when a > b
Substring(s, a, b) ==
    LET Clamp(n) == IF n < 0 THEN 0 ELSE IF n > Len(s) THEN Len(s) ELSE n
        lo == IF Clamp(a) <= Clamp(b) THEN Clamp(a) ELSE Clamp(b)
        hi == IF Clamp(a) <= Clamp(b) THEN Clamp(b) ELSE Clamp(a)
    IN  SubSeq(s, lo + 1, hi)

\* JavaScript values a caller may pass where a path is expected
JsString(s) == [type |-> "string", text |-> s]
JsNumber(s) == [type |-> "number", text |-> s]
JsNull == [type |-> "object", text |-> "null"]
JsUndefined == [type |-> "undefined", text |-> "undefined"]

\* !v
Falsy(v) ==
    \/ v.type = "undefined"
    \/ v = JsNull
    \/ v.type = "string" /\ v.text = ""
    \/ v.type = "number" /\ v.text \in {"0", "NaN"}

\* validateFilePath (lines 7-15): the two tests are made on the argument as
\* given, the trimmed argument is returned
ValidateFilePath(v) ==
    IF Falsy(v) \/ v.type # "string"
    THEN Threw(NewError("filePath must be a non-empty string"))
    ELSE IF Includes(v.text, "..") \/ OccursAt(v.text, 1, "/")
    THEN Threw(NewError("filePath must be relative and cannot contain \"..\""))
    ELSE Returned(Trim(v.text))

\* the alternatives of sectionRegex (line 130), in its order
SectionTypes ==
    <<"part", "chapter", "section", "subsection", "subsubsection",
      "paragraph", "subparagraph">>

\* where the title would begin if alternative t matched at position i of s:
\* behind the backslash, the name, the optional star and the opening brace
TitleStart(s, i, t) ==
    LET j == i + 1 + Len(SectionTypes[t])
        k == IF OccursAt(s, j, "*") THEN j + 1 ELSE j
    IN  IF OccursAt(s, i, "\\" \o SectionTypes[t]) /\ OccursAt(s, k, "{")
        THEN k + 1 ELSE 0

\* alternative t of sectionRegex matches at position i of s: the title is
\* one or more characters other than "}", and a "}" follows
MatchesAt(s, i, t) ==
    LET b == TitleStart(s, i, t)
    IN  /\ b # 0
        /\ IndexFrom(s, b, "}") > b

\* the match of sectionRegex at position i (1-based) as exec returns it:
\* match[0], match[1], match[2], match.index
MatchAt(s, i) ==
    LET t == CHOOSE t \in DOMAIN SectionTypes :
                 /\ MatchesAt(s, i, t)
                 /\ \A u \in 1..(t - 1) : ~MatchesAt(s, i, u)
        b == TitleStart(s, i, t)
        e == IndexFrom(s, b, "}")
    IN  [text  |-> SubSeq(s, i, e),
         type  |-> SectionTypes[t],
         title |-> SubSeq(s, b, e - 1),
         index |-> i - 1]

\* the positions from which sectionRegex matches
MatchStarts(s) ==
    {i \in 1..Len(s) : \E t \in DOMAIN SectionTypes : MatchesAt(s, i, t)}

\* sectionRegex.exec(content) with the regex's lastIndex at `from` (0-based):
\* the leftmost match that begins there or later, <<>> for null
Exec(s, from) ==
    LET later == {i \in MatchStarts(s) : i > from}
    IN  IF later = {} THEN <<>>
        ELSE <<MatchAt(s, CHOOSE i \in later : \A j \in later : i <= j)>>

\* sections with the content of its last entry set
WithLastContent(sections, text) ==
    [sections EXCEPT ![Len(sections)].content = text]

\* the while loop of lines 135-150 and the closing if of lines 153-156:
\* `from` is the regex's lastIndex, lastIndex the variable of line 133
RECURSIVE ScanSections(_, _, _, _)
ScanSections(content, from, sections, lastIndex) ==
    LET found == Exec(content, from)
    IN  IF found = <<>>
        THEN IF Len(sections) > 0
             THEN WithLastContent(sections,
                      Trim(Substring(content,
                                     lastIndex + Len(sections[Len(sections)].title) + 3,
                                     Len(content))))
             ELSE sections
        ELSE LET match == found[1]
                 closed == IF Len(sections) > 0
                           THEN WithLastContent(sections,
                                    Trim(Substring(content, lastIndex + Len(match.text),
                                                   match.index)))
                           ELSE sections
             IN  ScanSections(content, match.index + Len(match.text),
                              Append(closed, [type |-> match.type, title |-> match.title,
                                              startIndex |-> match.index, content |-> ""]),
                              match.index)

\* getSections behind its readFile (lines 129-158)
GetSections(content) == ScanSections(content, 0, <<>>, 0)

(***************************************************************************)
(* The catch blocks.                                                       *)
(***************************************************************************)
\* cloneOrPull's catch (lines 92-93)
SyncCatch(error) == Threw(RedactError(error))

\* commit's catch looking for the marker in error.message only
CommitCatch_MessageOnly(error) ==
    IF error.message # "" /\ Includes(error.message, Marker)
    THEN Returned("Nothing to commit, working tree clean")
    ELSE IF error.message # "" /\ Includes(error.message, "timeout")
         THEN Threw(NewError("Commit operation timed out"))
         ELSE Threw(NewError("Commit failed: " \o RedactError(error).message))

\* commit's catch (lines 201-209)
CommitCatch(error) ==
    LET combined == error.message \o " " \o error.stdout
    IN  IF Includes(combined, Marker)
        THEN Returned("Nothing to commit, working tree clean")
        ELSE IF error.message # "" /\ Includes(error.message, "timeout")
             THEN Threw(NewError("Commit operation timed out"))
             ELSE Threw(NewError("Commit failed: " \o RedactError(error).message))

\* history: commit's catch calls _redactError only where it builds 'Commit
\* failed: ...' (line 207)
CommitCatchRedacts(error) ==
    /\ CommitCatch(error).kind = "threw"
    /\ CommitCatch(error).error.message # "Commit operation timed out"

\* push's catch without the 403 branch
PushCatch_NoAuthVariant(error) ==
    LET redacted == RedactError(error)
    IN  IF Includes(redacted.message, "timeout")
        THEN Threw(NewError("Push operation timed out - check network connection"))
        ELSE Threw(NewError("Push failed: " \o redacted.message))

\* push's catch (lines 224-232)
PushCatch(error) ==
    LET redacted == RedactError(error)
    IN  IF Includes(redacted.message, "timeout")
        THEN Threw(NewError("Push operation timed out - check network connection"))
        ELSE IF Includes(redacted.message, "403")
             THEN Threw(NewError("Push failed: Authentication error - check git token"))
             ELSE Threw(NewError("Push failed: " \o redacted.message))

(***************************************************************************)
(* Inputs.                                                                 *)
(***************************************************************************)
\* what callers pass as gitToken
TokenInputs == {"s3cr3t-Tok_1", "RED", "403", "", "tok$(whoami)"}

\* what callers pass as projectId
ProjectIdInputs == {"proj-1", "", "../../etc"}

\* what callers pass to commit()
CommitMessages ==
    {"update intro", "fix: nothing to commit case", "fix timeout handling",
     "rotate " \o gitToken}

\* what callers pass as filePath and as content
FilePaths == {"sections/intro.tex"}
FileContents == {"\\section{Results}\nnew text\n"}

\* the files of the Overleaf project, as git clone checks them out
RemoteFiles ==
    [p \in {FullPath("main.tex")} |-> "\\section{Intro}\nHello\n"]

\* what callers pass to validateFilePath: the arguments of its tests (lines
\* 37-63), others that are no strings, and paths with whitespace around them
PathArguments ==
    {JsNull, JsUndefined, JsNumber("0"), JsNumber("42")}
    \cup {JsString(t) : t \in
             {"", "../secret.txt", "foo/../../etc/passwd", "..", "/etc/passwd",
              "/tmp/file.tex", "main.tex", "chapters/intro.tex", "  main.tex  ",
              " /etc/passwd", "\t/tmp/file.tex", " ", "sections/intro.tex\n",
              " . ./x", "a b/c.tex"}}

\* the texts getSections is given: no header, one header, headers of equal
\* and of different length, a starred one, text before the first header,
\* a header with an empty title (no match), headers with nothing between
Documents ==
    {"no headers here\n",
     "\\section{Intro}\nHello\n",
     "\\section{A}\nx\n\\section{B}\ny\n",
     "Preamble\n\\chapter{One}\nfirst\n\\subsection*{Two}\nsecond",
     "\\section{}\n\\paragraph{P} text",
     "\\part{I}\\subparagraph{long title}tail",
     "\\subsubsection{Deep}"}

\* the texts of the error objects handed to _redactError directly
ErrorTexts ==
    {"", "fail", "auth failed for " \o gitToken \o " on server",
     gitToken \o gitToken, "a" \o gitToken}

ErrorObjects ==
    {[message |-> m, stdout |-> o, stderr |-> e, killed |-> FALSE] :
        m \in ErrorTexts, o \in ErrorTexts, e \in ErrorTexts}

\* a second client, constructed and with no call in flight
IdlePeer(tempDir, pid) ==
    [tempDir       |-> tempDir,     \* its this.tempDir
     projectId     |-> pid,         \* its this.projectId
     gitToken      |-> "0therTok_2",\* its this.gitToken
     askPassScript |-> Null,        \* its this._askPassScript
     pc            |-> "idle",      \* where its push() is
     scriptPath    |-> "",          \* _createAskPassScript's local
     target        |-> "",          \* the path its _cleanupAskPassScript unlinks
     started       |-> <<>>]        \* the subprocesses it has started

(***************************************************************************)
(* Initial state: no client constructed, nothing on disk.                  *)
(***************************************************************************)
Init ==
    /\ phase = "new"
    /\ ctorArgs = [called |-> FALSE, gitToken |-> "", projectId |-> ""]
    /\ ctorError = ""
    /\ gitToken = ""
    /\ projectId = ""
    /\ askPassScript = Null
    /\ disk = <<>>
    /\ tempDirExists \in BOOLEAN
    /\ repoExists = FALSE
    /\ workTree = <<>>
    /\ workDirs = {}
    /\ processEnv = InitialEnv
    /\ peer = IdlePeer(TempDir, "proj-2")
    /\ call = [c \in Calls |-> IdleCall]

AllIdle == \A d \in Calls : call[d].pc = "idle"

\* a new activation takes the first free slot
FreeSlot(c) == call[c].pc = "idle" /\ \A d \in Calls : d < c => call[d].pc # "idle"

(***************************************************************************)
(* Actions.                                                                *)
(***************************************************************************)
\* new OverleafGitClient(token, pid) (lines 10-23)
Construct(token, pid) ==
    /\ phase = "new"
    /\ ctorArgs' = [called |-> TRUE, gitToken |-> token, projectId |-> pid]
    /\ ctorError' = ConstructorError(token, pid)
    /\ IF ConstructorError(token, pid) = ""
       THEN /\ phase' = "ready"
            /\ gitToken' = token
            /\ projectId' = pid
            /\ askPassScript' = Null
       ELSE UNCHANGED <<phase, gitToken, projectId, askPassScript>>
    /\ UNCHANGED <<disk, tempDirExists, repoExists,
                   workTree, workDirs, processEnv, peer, call>>

\* client._redactError(error), called directly (lines 53-64)
RedactErrorCall(c, error) ==
    /\ phase = "ready"
    /\ FreeSlot(c)
    /\ call' = [call EXCEPT ![c] =
                   [IdleCall EXCEPT !.pc = "done", !.op = "_redactError",
                                    !.raw = error,
                                    !.result = [Returned("") EXCEPT !.error = RedactError(error)]]]
    /\ UNCHANGED <<phase, ctorArgs, ctorError, gitToken, projectId, askPassScript, disk,
                   tempDirExists, repoExists,
                   workTree, workDirs, processEnv, peer>>

\* validateFilePath(v) is called (src/overleaf-mcp-server.test.js, line 7):
\* it needs no client and ends in the same step
ValidateFilePathCall(c, v) ==
    /\ FreeSlot(c)
    /\ call' = [call EXCEPT ![c] =
                   [IdleCall EXCEPT !.pc = "done", !.op = "validateFilePath",
                                    !.arg = v,
                                    !.result = ValidateFilePath(v)]]
    /\ UNCHANGED <<phase, ctorArgs, ctorError, gitToken, projectId, askPassScript, disk,
                   tempDirExists, repoExists,
                   workTree, workDirs, processEnv, peer>>

\* cloneOrPull() or status() is called: fs.mkdir is started (lines 68, 239)
BeginSync(c, op) ==
    /\ phase = "ready"
    /\ FreeSlot(c)
    /\ call' = [call EXCEPT ![c] = [IdleCall EXCEPT !.pc = "mkdir", !.op = op]]
    /\ UNCHANGED <<phase, ctorArgs, ctorError, gitToken, projectId, askPassScript, disk,
                   tempDirExists, repoExists,
                   workTree, workDirs, processEnv, peer>>

\* commit(message) is called: _gitEnv, _createAskPassScript (line 188)
BeginCommit(c, message) ==
    /\ phase = "ready"
    /\ FreeSlot(c)
    /\ \E r \in CreateAskPassScript([IdleCall EXCEPT !.op = "commit", !.message = message]) :
          call' = [call EXCEPT ![c] = r]
    /\ UNCHANGED <<phase, ctorArgs, ctorError, gitToken, projectId, askPassScript, disk,
                   tempDirExists, repoExists,
                   workTree, workDirs, processEnv, peer>>

\* push() is called: _gitEnv, _createAskPassScript (line 216)
BeginPush(c) ==
    /\ phase = "ready"
    /\ FreeSlot(c)
    /\ \E r \in CreateAskPassScript([IdleCall EXCEPT !.op = "push"]) :
          call' = [call EXCEPT ![c] = r]
    /\ UNCHANGED <<phase, ctorArgs, ctorError, gitToken, projectId, askPassScript, disk,
                   tempDirExists, repoExists,
                   workTree, workDirs, processEnv, peer>>

\* _createAskPassScript(), _gitEnv() or _cleanupAskPassScript() is called on
\* the client directly (lines 25, 35, 42)
BeginBroker(c, op) ==
    /\ phase = "ready"
    /\ FreeSlot(c)
    /\ LET r == [IdleCall EXCEPT !.op = op]
       IN  \E q \in (IF op = "_cleanupAskPassScript"
                     THEN {EnterFinally(r, Returned(""))}
                     ELSE CreateAskPassScript(r)) :
              call' = [call EXCEPT ![c] = q]
    /\ UNCHANGED <<phase, ctorArgs, ctorError, gitToken, projectId, askPassScript, disk,
                   tempDirExists, repoExists, workTree, workDirs, processEnv, peer>>

\* readFile(filePath), writeFile(filePath, content) or deleteFile(filePath) is
\* called: its cloneOrPull starts fs.mkdir (lines 121, 172, 181, 68)
BeginFileOp(c, op, filePath, content) ==
    /\ phase = "ready"
    /\ FreeSlot(c)
    /\ call' = [call EXCEPT ![c] = [IdleCall EXCEPT !.pc = "mkdir", !.op = op,
                                                     !.filePath = filePath,
                                                     !.content = content]]
    /\ UNCHANGED <<phase, ctorArgs, ctorError, gitToken, projectId, askPassScript, disk,
                   tempDirExists, repoExists, workTree, workDirs, processEnv, peer>>

\* fs.mkdir(tempDir, {recursive}) ends (line 68); on success cloneOrPull goes
\* on into _gitEnv (line 69); a failure leaves cloneOrPull as it is, outside
\* the try.
MkdirDone(c, ok) ==
    /\ call[c].pc = "mkdir"
    /\ IF ok
       THEN /\ tempDirExists' = TRUE
            /\ \E r \in CreateAskPassScript(call[c]) : call' = [call EXCEPT ![c] = r]
       ELSE /\ UNCHANGED tempDirExists
            /\ call' = [call EXCEPT ![c] =
                  Leave(@, Threw(NewError(
                      "EACCES: permission denied, mkdir '" \o TempDir \o "'")))]
    /\ UNCHANGED <<phase, ctorArgs, ctorError, gitToken, projectId, askPassScript, disk, repoExists,
                   workTree, workDirs, processEnv, peer>>

\* fs.writeFile(scriptPath, script, {mode: 0o700}) ends (line 30).  It cannot
\* succeed while tempDir does not exist; a failure leaves the caller outside
\* its try.
WriteFileDone(c, ok) ==
    /\ call[c].pc = "write"
    /\ ok => tempDirExists
    /\ IF ok
       THEN /\ disk' = [p \in DOMAIN disk \cup {call[c].scriptPath} |->
                           IF p = call[c].scriptPath THEN ScriptFile ELSE disk[p]]
            /\ call' = [call EXCEPT ![c].pc = "record"]
       ELSE /\ UNCHANGED disk
            /\ call' = [call EXCEPT ![c] =
                  Leave(@, Threw(NewError(
                      (IF tempDirExists
                       THEN "ENOSPC: no space left on device, open '"
                       ELSE "ENOENT: no such file or directory, open '")
                      \o call[c].scriptPath \o "'")))]
    /\ UNCHANGED <<phase, ctorArgs, ctorError, gitToken, projectId, askPassScript,
                   tempDirExists, repoExists,
                   workTree, workDirs, processEnv, peer>>

\* _createAskPassScript resumes after the write (lines 31-32), _gitEnv
\* returns the env
RecordAskPass(c) ==
    /\ call[c].pc = "record"
    /\ askPassScript' = call[c].scriptPath
    /\ call' = [call EXCEPT ![c] = AfterCreate(@, call[c].scriptPath)]
    /\ UNCHANGED <<phase, ctorArgs, ctorError, gitToken, projectId, disk, tempDirExists, repoExists,
                   workTree, workDirs, processEnv, peer>>

\* how fs.access(this.localPath) can end
ProbeOutcomes == (IF repoExists THEN {"ok"} ELSE {"ENOENT"}) \cup {"EIO"}

\* fs.access ends (lines 73-77) and cloneOrPull starts git pull or git clone
\* (lines 79-91)
ProbeDone(c, outcome) ==
    /\ call[c].pc = "probe"
    /\ outcome \in ProbeOutcomes
    /\ LET exists == (outcome = "ok")
           r == [call[c] EXCEPT !.probe = outcome]
       IN  call' = [call EXCEPT ![c] =
              IF exists
              THEN Spawn(r, <<"pull">>, LocalPath, r.env, 0, "pull")
              ELSE Spawn(r, <<"clone", CloneUrl, LocalPath>>, "", r.env, 0, "clone")]
    /\ UNCHANGED <<phase, ctorArgs, ctorError, gitToken, projectId, askPassScript, disk,
                   tempDirExists, repoExists,
                   workTree, workDirs, processEnv, peer>>

\* git pull inside the try whose catch clones: a failed pull falls back to clone
PullExit_FallbackToClone(c) ==
    /\ call[c].pc = "pull"
    /\ \E o \in GitResults(<<"pull">>, TRUE, TRUE) :
          /\ call' = [call EXCEPT ![c] =
                IF o.ok THEN EnterFinally(@, Returned(""))
                ELSE Spawn([@ EXCEPT !.raw = o.error],
                           <<"clone", CloneUrl, LocalPath>>, "", call[c].env, 0, "clone")]
    /\ UNCHANGED <<phase, ctorArgs, ctorError, gitToken, projectId, askPassScript, disk,
                   tempDirExists, repoExists,
                   workTree, workDirs, processEnv, peer>>

\* git pull ends (lines 81-84, 92-96)
PullExit(c) ==
    /\ call[c].pc = "pull"
    /\ \E o \in GitResults(<<"pull">>, TRUE, TRUE) :
          /\ call' = [call EXCEPT ![c] =
                IF o.ok THEN EnterFinally(@, Returned(""))
                ELSE EnterFinally([@ EXCEPT !.raw = o.error, !.redacted = TRUE],
                                  SyncCatch(o.error))]
    /\ UNCHANGED <<phase, ctorArgs, ctorError, gitToken, projectId, askPassScript, disk,
                   tempDirExists, repoExists,
                   workTree, workDirs, processEnv, peer>>

\* git clone ends (lines 87-96); it cannot succeed into an existing localPath,
\* and when it succeeds the working copy holds the project's files
CloneExit(c) ==
    /\ call[c].pc = "clone"
    /\ \E o \in GitResults(<<"clone", CloneUrl, LocalPath>>, FALSE, ~repoExists) :
          /\ repoExists' = (repoExists \/ o.ok)
          /\ workTree' = IF o.ok THEN RemoteFiles ELSE workTree
          /\ workDirs' = IF o.ok THEN {} ELSE workDirs
          /\ call' = [call EXCEPT ![c] =
                IF o.ok THEN EnterFinally(@, Returned(""))
                ELSE EnterFinally([@ EXCEPT !.raw = o.error, !.redacted = TRUE],
                                  SyncCatch(o.error))]
    /\ UNCHANGED <<phase, ctorArgs, ctorError, gitToken, projectId, askPassScript, disk,
                   tempDirExists,
                   processEnv, peer>>

\* git add -A ends (lines 190-195, 201-212): on success git commit is started
AddExit(c) ==
    /\ call[c].pc = "add"
    /\ \E o \in GitResults(<<"add", "-A">>, TRUE, TRUE) :
          /\ call' = [call EXCEPT ![c] =
                IF o.ok
                THEN Spawn(@, <<"commit", "-m", call[c].message>>, LocalPath, call[c].env,
                           30000, "commit")
                ELSE EnterFinally([@ EXCEPT !.raw = o.error,
                                            !.redacted = CommitCatchRedacts(o.error)],
                                  CommitCatch(o.error))]
    /\ UNCHANGED <<phase, ctorArgs, ctorError, gitToken, projectId, askPassScript, disk,
                   tempDirExists, repoExists,
                   workTree, workDirs, processEnv, peer>>

\* git commit ends (lines 195-212)
CommitExit(c) ==
    /\ call[c].pc = "commit"
    /\ \E o \in GitResults(<<"commit", "-m", call[c].message>>, TRUE, TRUE) :
          /\ call' = [call EXCEPT ![c] =
                IF o.ok
                THEN EnterFinally(@, Returned(IF o.stdout # "" THEN o.stdout
                                              ELSE "Commit successful"))
                ELSE EnterFinally([@ EXCEPT !.raw = o.error,
                                            !.redacted = CommitCatchRedacts(o.error)],
                                  CommitCatch(o.error))]
    /\ UNCHANGED <<phase, ctorArgs, ctorError, gitToken, projectId, askPassScript, disk,
                   tempDirExists, repoExists,
                   workTree, workDirs, processEnv, peer>>

\* git push ends (lines 218-235)
PushExit(c) ==
    /\ call[c].pc = "push"
    /\ \E o \in GitResults(<<"push">>, TRUE, TRUE) :
          /\ call' = [call EXCEPT ![c] =
                IF o.ok
                THEN EnterFinally(@, Returned(IF o.stdout # "" THEN o.stdout
                                              ELSE "Push successful"))
                ELSE EnterFinally([@ EXCEPT !.raw = o.error, !.redacted = TRUE],
                                  PushCatch(o.error))]
    /\ UNCHANGED <<phase, ctorArgs, ctorError, gitToken, projectId, askPassScript, disk,
                   tempDirExists, repoExists,
                   workTree, workDirs, processEnv, peer>>

\* git status ends (lines 240-244): no try around it
StatusExit(c) ==
    /\ call[c].pc = "status"
    /\ \E o \in GitResults(<<"status">>, TRUE, TRUE) :
          /\ call' = [call EXCEPT ![c] =
                [@ EXCEPT !.pc = "done",
                          !.raw = o.error,
                          !.result = IF o.ok THEN Returned(o.stdout) ELSE Threw(o.error)]]
    /\ UNCHANGED <<phase, ctorArgs, ctorError, gitToken, projectId, askPassScript, disk,
                   tempDirExists, repoExists,
                   workTree, workDirs, processEnv, peer>>

\* fs.readFile(fullPath, 'utf8') ends (line 123): no try around it
ReadFileDone(c) ==
    /\ call[c].pc = "fsRead"
    /\ LET full == FullPath(call[c].filePath)
           read == IF full \in DOMAIN workTree
                   THEN Returned(workTree[full])
                   ELSE Threw(NewError("ENOENT: no such file or directory, open '"
                                       \o full \o "'"))
       IN  call' = [call EXCEPT ![c] =
              IF call[c].op = "getSections" /\ read.kind = "returned"
              THEN [@ EXCEPT !.pc = "done",
                             !.fsLog = Append(@, "readFile"),
                             !.content = read.value,
                             !.sections = GetSections(read.value),
                             !.result = Returned("")]
              ELSE [@ EXCEPT !.pc = "done",
                             !.fsLog = Append(@, "readFile"),
                             !.result = read]]
    /\ UNCHANGED <<phase, ctorArgs, ctorError, gitToken, projectId, askPassScript, disk,
                   tempDirExists, repoExists, workTree, workDirs, processEnv, peer>>

\* fs.mkdir(dir, {recursive: true}) ends (line 175): no try around it
WriteMkdirDone(c, ok) ==
    /\ call[c].pc = "fsMkdir"
    /\ LET dir == Dirname(FullPath(call[c].filePath))
       IN  IF ok
           THEN /\ workDirs' = workDirs \cup ({dir} \ {LocalPath})
                /\ call' = [call EXCEPT ![c] =
                      [@ EXCEPT !.pc = "fsWrite", !.fsLog = Append(@, "mkdir")]]
           ELSE /\ UNCHANGED workDirs
                /\ call' = [call EXCEPT ![c] =
                      [@ EXCEPT !.pc = "done",
                                !.fsLog = Append(@, "mkdir"),
                                !.result = Threw(NewError(
                                    "EACCES: permission denied, mkdir '" \o dir \o "'"))]]
    /\ UNCHANGED <<phase, ctorArgs, ctorError, gitToken, projectId, askPassScript, disk,
                   tempDirExists, repoExists, workTree, processEnv, peer>>

\* fs.writeFile(fullPath, content, 'utf8') ends (lines 176-177)
WriteContentDone(c, ok) ==
    /\ call[c].pc = "fsWrite"
    /\ LET full == FullPath(call[c].filePath)
       IN  IF ok
           THEN /\ workTree' = [p \in DOMAIN workTree \cup {full} |->
                                   IF p = full THEN call[c].content ELSE workTree[p]]
                /\ call' = [call EXCEPT ![c] =
                      [@ EXCEPT !.pc = "done", !.fsLog = Append(@, "writeFile"),
                                !.result = Returned(full)]]
           ELSE /\ UNCHANGED workTree
                /\ call' = [call EXCEPT ![c] =
                      [@ EXCEPT !.pc = "done", !.fsLog = Append(@, "writeFile"),
                                !.result = Threw(NewError(
                                    "ENOSPC: no space left on device, open '"
                                    \o full \o "'"))]]
    /\ UNCHANGED <<phase, ctorArgs, ctorError, gitToken, projectId, askPassScript, disk,
                   tempDirExists, repoExists, workDirs, processEnv, peer>>

\* fs.unlink(fullPath) ends (lines 183-184): no try around it
DeleteUnlinkDone(c) ==
    /\ call[c].pc = "fsUnlink"
    /\ LET full == FullPath(call[c].filePath)
       IN  /\ workTree' = [p \in DOMAIN workTree \ {full} |-> workTree[p]]
           /\ call' = [call EXCEPT ![c] =
                 [@ EXCEPT !.pc = "done", !.fsLog = Append(@, "unlink"),
                           !.result = IF full \in DOMAIN workTree
                                      THEN Returned(full)
                                      ELSE Threw(NewError(
                                          "ENOENT: no such file or directory, unlink '"
                                          \o full \o "'"))]]
    /\ UNCHANGED <<phase, ctorArgs, ctorError, gitToken, projectId, askPassScript, disk,
                   tempDirExists, repoExists, workDirs, processEnv, peer>>

\* .catch(e => { throw e; }): the rejection of fs.unlink is passed on
UnlinkCatch_Rethrow(error) == error

\* .catch(() => {}) (line 37): the rejection of fs.unlink is swallowed
UnlinkCatch(error) == NoError

\* fs.unlink(target).catch(() => {}) ends (line 37): the file is gone, and
\* that it was gone already is swallowed
UnlinkDone(c) ==
    /\ call[c].pc = "unlink"
    /\ disk' = [p \in DOMAIN disk \ {call[c].target} |-> disk[p]]
    /\ LET rejected == IF call[c].target \in DOMAIN disk THEN NoError
                       ELSE NewError("ENOENT: no such file or directory, unlink '"
                                     \o call[c].target \o "'")
           passed == UnlinkCatch(rejected)
       IN  call' = [call EXCEPT ![c] =
              IF passed = NoError
              THEN [@ EXCEPT !.pc = "clear", !.swallowed = rejected]
              ELSE [@ EXCEPT !.pc = "done", !.pend = NoResult, !.target = "",
                             !.result = Threw(passed)]]
    /\ UNCHANGED <<phase, ctorArgs, ctorError, gitToken, projectId, askPassScript,
                   tempDirExists, repoExists,
                   workTree, workDirs, processEnv, peer>>

\* _cleanupAskPassScript resumes (line 38) and the finally block lets the
\* held-back completion through
ClearAskPass(c) ==
    /\ call[c].pc = "clear"
    /\ askPassScript' = Null
    /\ call' = [call EXCEPT ![c] = Leave([@ EXCEPT !.target = ""], call[c].pend)]
    /\ UNCHANGED <<phase, ctorArgs, ctorError, gitToken, projectId, disk, tempDirExists, repoExists,
                   workTree, workDirs, processEnv, peer>>

\* the caller has received the result: the slot is free again
Collect(c) ==
    /\ call[c].pc = "done"
    /\ call' = [call EXCEPT ![c] = IdleCall]
    /\ UNCHANGED <<phase, ctorArgs, ctorError, gitToken, projectId, askPassScript, disk,
                   tempDirExists, repoExists,
                   workTree, workDirs, processEnv, peer>>

Next ==
    \/ \E t \in TokenInputs, p \in ProjectIdInputs : Construct(t, p)
    \/ \E c \in Calls :
        \/ AllIdle /\ \E e \in ErrorObjects : RedactErrorCall(c, e)
        \/ AllIdle /\ \E op \in {"cloneOrPull", "status"} : BeginSync(c, op)
        \/ AllIdle /\ \E m \in CommitMessages : BeginCommit(c, m)
        \/ AllIdle /\ BeginPush(c)
        \/ AllIdle /\ \E op \in FileOps, f \in FilePaths :
              \E t \in (IF op = "writeFile" THEN FileContents ELSE {""}) :
                 BeginFileOp(c, op, f, t)
        \/ \E ok \in BOOLEAN : MkdirDone(c, ok)
        \/ \E ok \in BOOLEAN : WriteFileDone(c, ok)
        \/ RecordAskPass(c)
        \/ \E outcome \in {"ok", "ENOENT", "EIO"} : ProbeDone(c, outcome)
        \/ PullExit(c)
        \/ CloneExit(c)
        \/ AddExit(c)
        \/ CommitExit(c)
        \/ PushExit(c)
        \/ StatusExit(c)
        \/ ReadFileDone(c)
        \/ \E ok \in BOOLEAN : WriteMkdirDone(c, ok)
        \/ \E ok \in BOOLEAN : WriteContentDone(c, ok)
        \/ DeleteUnlinkDone(c)
        \/ UnlinkDone(c)
        \/ ClearAskPass(c)
        \/ Collect(c)

Spec == Init /\ [][Next]_vars

\* the client used as its tests use it: the broker's methods are called
\* directly as well, between the calls of the public methods
NextBroker ==
    \/ Next
    \/ \E c \in Calls : AllIdle /\ \E op \in BrokerOps : BeginBroker(c, op)

SpecBroker == Init /\ [][NextBroker]_vars

(***************************************************************************)
(* Overlapping calls on one client: a method is called while another call  *)
(* of the client is suspended at an await.  The client is constructed and  *)
(* its working copy cloned; git either succeeds silently or fails with one *)
(* message, so that the interleavings stay enumerable.                     *)
(***************************************************************************)
InitOverlap ==
    /\ phase = "ready"
    /\ ctorArgs = [called |-> TRUE, gitToken |-> "s3cr3t-Tok_1", projectId |-> "proj-1"]
    /\ ctorError = ""
    /\ gitToken = "s3cr3t-Tok_1"
    /\ projectId = "proj-1"
    /\ askPassScript = Null
    /\ disk = <<>>
    /\ tempDirExists = TRUE
    /\ repoExists = TRUE
    /\ workTree = [p \in {"/tmp/overleaf-mcp/proj-1/main.tex"} |-> "\\section{Intro}\nHello\n"]
    /\ workDirs = {}
    /\ processEnv = InitialEnv
    /\ peer = IdlePeer(TempDir, "proj-2")
    /\ call = [c \in Calls |-> IdleCall]

\* the ends of git kept in the overlapping runs
FewOutcomes ==
    \A c \in Calls :
        /\ call[c].raw.stdout = ""
        /\ ~call[c].raw.killed
        /\ call[c].raw.stderr \in {"", "fatal: refusing to merge unrelated histories\n"}
        /\ {call[c].pend.value, call[c].result.value}
              \subseteq {"", "Commit successful", "Push successful"}

NextOverlap ==
    \E c \in Calls :
        \/ BeginSync(c, "cloneOrPull")
        \/ BeginCommit(c, "update intro")
        \/ BeginPush(c)
        \/ MkdirDone(c, TRUE)
        \/ WriteFileDone(c, TRUE)
        \/ RecordAskPass(c)
        \/ ProbeDone(c, "ok")
        \/ PullExit(c) /\ FewOutcomes'
        \/ AddExit(c) /\ FewOutcomes'
        \/ CommitExit(c) /\ FewOutcomes'
        \/ PushExit(c) /\ FewOutcomes'
        \/ UnlinkDone(c)
        \/ ClearAskPass(c)
        \/ Collect(c)

SpecOverlap == InitOverlap /\ [][NextOverlap]_vars

\* overlapping acquisitions and releases: _createAskPassScript and
\* _cleanupAskPassScript called directly, one while another is suspended
NextOverlapBroker ==
    \E c \in Calls :
        \/ \E op \in {"_createAskPassScript", "_cleanupAskPassScript"} : BeginBroker(c, op)
        \/ WriteFileDone(c, TRUE)
        \/ RecordAskPass(c)
        \/ UnlinkDone(c)
        \/ ClearAskPass(c)
        \/ Collect(c)

SpecOverlapBroker == InitOverlap /\ [][NextOverlapBroker]_vars

(***************************************************************************)
(* Two clients in one process: the client above, its calls one at a time,  *)
(* and a second instance that differs from it in projectId or in tempDir   *)
(* and runs push() again and again.  Both write their handler files to the *)
(* same file system, and crypto.randomUUID() is not assumed to give the    *)
(* two clients different values.                                           *)
(***************************************************************************)
\* the second client's constructor arguments
PeerConfigs ==
    {[tempDir |-> TempDir, projectId |-> "proj-2"],
     [tempDir |-> "/tmp/other-root", projectId |-> "proj-1"]}

InitPeers ==
    /\ phase = "ready"
    /\ ctorArgs = [called |-> TRUE, gitToken |-> "s3cr3t-Tok_1", projectId |-> "proj-1"]
    /\ ctorError = ""
    /\ gitToken = "s3cr3t-Tok_1"
    /\ projectId = "proj-1"
    /\ askPassScript = Null
    /\ disk = <<>>
    /\ tempDirExists = TRUE
    /\ repoExists \in BOOLEAN
    /\ workTree = <<>>
    /\ workDirs = {}
    /\ processEnv = InitialEnv
    /\ \E k \in PeerConfigs : peer = IdlePeer(k.tempDir, k.projectId)
    /\ call = [c \in Calls |-> IdleCall]

\* the second client's this.localPath
PeerLocalPath == LocalPathOf(peer.tempDir, peer.projectId)

\* the second client's push() is called: _gitEnv, _createAskPassScript
\* (lines 216, 26-30)
PeerBeginPush ==
    /\ peer.pc = "idle"
    /\ \E u \in 1..MaxUuid :
          peer' = IF peer.askPassScript # Null
                  THEN [peer EXCEPT !.pc = "push",
                           !.started = Append(@, [file |-> "git", args |-> <<"push">>,
                                                  cwd |-> PeerLocalPath,
                                                  env |-> GitEnv(peer.askPassScript),
                                                  timeout |-> 60000])]
                  ELSE [peer EXCEPT !.pc = "write",
                           !.scriptPath = ScriptPathOf(peer.tempDir, peer.projectId, u)]
    /\ UNCHANGED <<phase, ctorArgs, ctorError, gitToken, projectId, askPassScript, disk,
                   tempDirExists, repoExists, workTree, workDirs, processEnv, call>>

\* its fs.writeFile ends (line 30)
PeerWriteFileDone ==
    /\ peer.pc = "write"
    /\ disk' = [p \in DOMAIN disk \cup {peer.scriptPath} |->
                   IF p = peer.scriptPath THEN ScriptFileOf(peer.gitToken) ELSE disk[p]]
    /\ peer' = [peer EXCEPT !.pc = "record"]
    /\ UNCHANGED <<phase, ctorArgs, ctorError, gitToken, projectId, askPassScript,
                   tempDirExists, repoExists, workTree, workDirs, processEnv, call>>

\* its _createAskPassScript records the path, its push starts git push
\* (lines 31-32, 43-50, 218-222)
PeerRecordAskPass ==
    /\ peer.pc = "record"
    /\ peer' = [peer EXCEPT !.pc = "push",
                            !.askPassScript = peer.scriptPath,
                            !.started = Append(@, [file |-> "git", args |-> <<"push">>,
                                                   cwd |-> PeerLocalPath,
                                                   env |-> GitEnv(peer.scriptPath),
                                                   timeout |-> 60000])]
    /\ UNCHANGED <<phase, ctorArgs, ctorError, gitToken, projectId, askPassScript, disk,
                   tempDirExists, repoExists, workTree, workDirs, processEnv, call>>

\* its git push ends and its finally block starts fs.unlink (lines 233-235, 36-37)
PeerPushExit ==
    /\ peer.pc = "push"
    /\ peer' = IF peer.askPassScript # Null
               THEN [peer EXCEPT !.pc = "unlink", !.target = peer.askPassScript]
               ELSE [peer EXCEPT !.pc = "idle", !.scriptPath = "", !.started = <<>>]
    /\ UNCHANGED <<phase, ctorArgs, ctorError, gitToken, projectId, askPassScript, disk,
                   tempDirExists, repoExists, workTree, workDirs, processEnv, call>>

\* its fs.unlink(...).catch(() => {}) ends (line 37)
PeerUnlinkDone ==
    /\ peer.pc = "unlink"
    /\ disk' = [p \in DOMAIN disk \ {peer.target} |-> disk[p]]
    /\ peer' = [peer EXCEPT !.pc = "clear"]
    /\ UNCHANGED <<phase, ctorArgs, ctorError, gitToken, projectId, askPassScript,
                   tempDirExists, repoExists, workTree, workDirs, processEnv, call>>

\* its _cleanupAskPassScript clears the slot (line 38) and its push returns
PeerClearAskPass ==
    /\ peer.pc = "clear"
    /\ peer' = [peer EXCEPT !.pc = "idle", !.askPassScript = Null, !.target = "",
                            !.scriptPath = "", !.started = <<>>]
    /\ UNCHANGED <<phase, ctorArgs, ctorError, gitToken, projectId, askPassScript, disk,
                   tempDirExists, repoExists, workTree, workDirs, processEnv, call>>

NextPeers ==
    \/ \E c \in Calls :
        \/ AllIdle /\ BeginSync(c, "cloneOrPull")
        \/ AllIdle /\ BeginCommit(c, "update intro")
        \/ AllIdle /\ BeginPush(c)
        \/ MkdirDone(c, TRUE)
        \/ WriteFileDone(c, TRUE)
        \/ RecordAskPass(c)
        \/ \E outcome \in {"ok", "ENOENT"} : ProbeDone(c, outcome)
        \/ PullExit(c) /\ FewOutcomes'
        \/ CloneExit(c) /\ FewOutcomes'
        \/ AddExit(c) /\ FewOutcomes'
        \/ CommitExit(c) /\ FewOutcomes'
        \/ PushExit(c) /\ FewOutcomes'
        \/ UnlinkDone(c)
        \/ ClearAskPass(c)
        \/ Collect(c)
    \/ PeerBeginPush
    \/ PeerWriteFileDone
    \/ PeerRecordAskPass
    \/ PeerPushExit
    \/ PeerUnlinkDone
    \/ PeerClearAskPass

SpecPeers == InitPeers /\ [][NextPeers]_vars

(***************************************************************************)
(* Path validation and section parsing: validateFilePath on the arguments  *)
(* above, getSections on a working copy whose file holds one of the texts  *)
(* above, the calls one at a time.                                         *)
(***************************************************************************)
InitFiles ==
    /\ phase = "ready"
    /\ ctorArgs = [called |-> TRUE, gitToken |-> "s3cr3t-Tok_1", projectId |-> "proj-1"]
    /\ ctorError = ""
    /\ gitToken = "s3cr3t-Tok_1"
    /\ projectId = "proj-1"
    /\ askPassScript = Null
    /\ disk = <<>>
    /\ tempDirExists = TRUE
    /\ repoExists = TRUE
    /\ \E d \in Documents :
          workTree = [p \in {LocalPathOf(TempDir, "proj-1") \o "/" \o f : f \in FilePaths}
                         |-> d]
    /\ workDirs = {}
    /\ processEnv = InitialEnv
    /\ peer = IdlePeer(TempDir, "proj-2")
    /\ call = [c \in Calls |-> IdleCall]

NextFiles ==
    \E c \in Calls :
        \/ AllIdle /\ \E v \in PathArguments : ValidateFilePathCall(c, v)
        \/ AllIdle /\ \E f \in FilePaths : BeginFileOp(c, "getSections", f, "")
        \/ MkdirDone(c, TRUE)
        \/ WriteFileDone(c, TRUE)
        \/ RecordAskPass(c)
        \/ ProbeDone(c, "ok")
        \/ PullExit(c) /\ FewOutcomes'
        \/ UnlinkDone(c)
        \/ ClearAskPass(c)
        \/ ReadFileDone(c)
        \/ Collect(c)

SpecFiles == InitFiles /\ [][NextFiles]_vars

(***************************************************************************)
(* Properties.                                                             *)
(***************************************************************************)
ErrorFields == {"message", "stderr", "stdout"}

\* s begins with t
StartsWith(s, t) == Len(t) <= Len(s) /\ SubSeq(s, 1, Len(t)) = t

RemoteOps == {"cloneOrPull", "commit", "push"}

\* the subprocesses call c has started whose first argument is `word`
StartedWith(c, word) ==
    {i \in DOMAIN call[c].started : call[c].started[i].args[1] = word}

\* C1: after _redactError(error) none of error.message, error.stderr and
\* error.stdout contains the token, and each of them that contained the token
\* before the call contains the placeholder '[REDACTED]'.
C1_RedactionRemovesToken ==
    \A c \in Calls :
        (call[c].pc = "done" /\ call[c].op = "_redactError") =>
            \A f \in ErrorFields :
                /\ ~Includes(call[c].result.error[f], gitToken)
                /\ Includes(call[c].raw[f], gitToken) =>
                       Includes(call[c].result.error[f], Placeholder)

\* C2: when a cloneOrPull, commit or push call (calls not overlapping)
\* returns or throws, _askPassScript is null and neither the handler file the
\* call created nor the one its subprocesses were given exists on disk.
C2_HandlerReleasedOnEveryExit ==
    \A c \in Calls :
        (call[c].pc = "done" /\ call[c].op \in RemoteOps) =>
            /\ askPassScript = Null
            /\ call[c].scriptPath \notin DOMAIN disk
            /\ call[c].env.GIT_ASKPASS \notin DOMAIN disk
            /\ DOMAIN disk = {}

\* a commit call has thrown after it created a handler and ran git with it
C2_Witness ==
    \E c \in Calls :
        /\ call[c].pc = "done"
        /\ call[c].op = "commit"
        /\ call[c].result.kind = "threw"
        /\ call[c].scriptPath # ""
        /\ Len(call[c].started) = 2

TokenFreeArgv(c) ==
    { <<"pull">>,
      <<"clone", "https://git@git.overleaf.com/" \o projectId,
        "/tmp/overleaf-mcp/" \o projectId>>,
      <<"add", "-A">>,
      <<"commit", "-m", call[c].message>>,
      <<"push">>,
      <<"status">> }

C4_UrlHostAndProjectOnly ==
    \A c \in Calls : \A i \in StartedWith(c, "clone") :
        /\ call[c].started[i].args[2] = "https://git.overleaf.com/" \o projectId
        /\ ~Includes(call[c].started[i].args[2], "@")

\* C4, amended: the URL handed to git clone is the scheme, the fixed username
\* "git", the fixed host and the project identifier; its user part carries no
\* password, so no token.
C4_UrlFixedUserNoToken ==
    \A c \in Calls : \A i \in StartedWith(c, "clone") :
        LET url == call[c].started[i].args[2]
        IN  /\ url = "https://" \o "git" \o "@" \o "git.overleaf.com" \o "/" \o projectId
            /\ ~Includes(url, ":" \o gitToken \o "@")
            /\ call[c].started[i].args[3] = LocalPath

\* git clone is running, localPath being absent
C4_Witness ==
    \E c \in Calls :
        /\ call[c].pc = "clone"
        /\ call[c].probe = "ENOENT"
        /\ StartedWith(c, "clone") # {}

\* a field value the constructor has to accept: non-empty, allowed characters only
WellFormed(s) ==
    /\ s # ""
    /\ ~\E i \in 1..Len(s) : SubSeq(s, i, i) \notin AllowedChars

\* C5: the constructor throws a validation error naming an offending field
\* (projectId, checked first, or gitToken) whenever a field is empty or has a
\* character outside [A-Za-z0-9_-]; otherwise it stores both values unchanged
\* and the handler slot is absent.
C5_ConstructorValidation ==
    ctorArgs.called =>
        LET t == ctorArgs.gitToken
            p == ctorArgs.projectId
        IN  /\ ~WellFormed(p) => (ctorError = ProjectIdError /\ phase = "new")
            /\ (WellFormed(p) /\ ~WellFormed(t)) =>
                   (ctorError = GitTokenError /\ phase = "new")
            /\ (WellFormed(p) /\ WellFormed(t)) =>
                   /\ ctorError = ""
                   /\ phase = "ready"
                   /\ gitToken = t
                   /\ projectId = p
                   /\ (AllIdle => askPassScript = Null)

\* the constructor has rejected an empty gitToken beside a valid projectId
C5_Witness ==
    /\ ctorArgs.called
    /\ ctorArgs.gitToken = ""
    /\ ctorArgs.projectId = "proj-1"
    /\ ctorError = GitTokenError

\* C6: a cloneOrPull that found localPath (the probe succeeded) starts git
\* pull and never git clone; when that pull fails, cloneOrPull throws the
\* pull failure, redacted.
C6_PullFailureNeverClones ==
    \A c \in Calls :
        /\ call[c].probe = "ok" =>
              /\ StartedWith(c, "pull") = {1}
              /\ StartedWith(c, "clone") = {}
        /\ StartedWith(c, "pull") # {} => StartedWith(c, "clone") = {}
        /\ (call[c].pc = "done" /\ call[c].op = "cloneOrPull" /\ call[c].probe = "ok"
               /\ call[c].raw # NoError) =>
              /\ call[c].result = Threw(RedactError(call[c].raw))
              /\ StartsWith(call[c].raw.message, "Command failed: git pull")

\* cloneOrPull has thrown a failure of git pull
C6_Witness ==
    \E c \in Calls :
        /\ call[c].pc = "done"
        /\ call[c].op = "cloneOrPull"
        /\ call[c].probe = "ok"
        /\ call[c].result.kind = "threw"
        /\ Len(call[c].started) = 1

\* C7: git clone is started only when the existence probe failed with "not
\* found"; a probe that failed for another reason makes cloneOrPull fail, and
\* no git clone is started.
C7_CloneOnlyWhenNotFound ==
    \A c \in Calls :
        /\ StartedWith(c, "clone") # {} => call[c].probe = "ENOENT"
        /\ call[c].probe = "EIO" => Len(call[c].started) = 0

\* C8: when git add -A or git commit fails, commit() resolves to 'Nothing to
\* commit, working tree clean' if 'nothing to commit' is in the failure's
\* message or in its captured stdout, and throws if it is in neither.
C8_NothingToCommitIsBenign ==
    \A c \in Calls :
        (call[c].pc = "done" /\ call[c].op = "commit" /\ call[c].raw # NoError) =>
            LET inMessage == Includes(call[c].raw.message, "nothing to commit")
                inStdout == Includes(call[c].raw.stdout, "nothing to commit")
            IN  /\ (inMessage \/ inStdout) =>
                      call[c].result = Returned("Nothing to commit, working tree clean")
                /\ (~inMessage /\ ~inStdout) => call[c].result.kind = "threw"

\* a failed git commit with the marker in its stdout only has resolved
C8_Witness ==
    \E c \in Calls :
        /\ call[c].pc = "done"
        /\ call[c].op = "commit"
        /\ Includes(call[c].raw.stdout, "nothing to commit")
        /\ ~Includes(call[c].raw.message, "nothing to commit")
        /\ call[c].result.kind = "returned"
        /\ Len(call[c].started) = 2

\* C9: every error commit() throws is 'Commit operation timed out' or has the
\* message 'Commit failed: ' followed by text that does not contain the token,
\* whichever step failed.
C9_OnlyTimeoutOrCommitFailed ==
    \A c \in Calls :
        (call[c].pc = "done" /\ call[c].op = "commit" /\ call[c].result.kind = "threw") =>
            LET m == call[c].result.error.message
            IN  \/ m = "Commit operation timed out"
                \/ /\ StartsWith(m, "Commit failed: ")
                   /\ ~Includes(SubSeq(m, Len("Commit failed: ") + 1, Len(m)), gitToken)

\* C10: when git push fails, push() throws exactly the error its redacted
\* message selects: 'timeout' first, then '403', else 'Push failed: ' and the
\* redacted message.
C10_PushClassification ==
    \A c \in Calls :
        (call[c].pc = "done" /\ call[c].op = "push" /\ call[c].raw # NoError) =>
            LET text == RedactError(call[c].raw).message
                thrown == call[c].result.error.message
            IN  /\ call[c].result.kind = "threw"
                /\ Includes(text, "timeout") =>
                      thrown = "Push operation timed out - check network connection"
                /\ (~Includes(text, "timeout") /\ Includes(text, "403")) =>
                      thrown = "Push failed: Authentication error - check git token"
                /\ (~Includes(text, "timeout") /\ ~Includes(text, "403")) =>
                      thrown = "Push failed: " \o text

\* a push failure with 403 and no 'timeout' in its redacted message has been
\* thrown as the authentication error
C10_Witness ==
    \E c \in Calls :
        /\ call[c].pc = "done"
        /\ call[c].op = "push"
        /\ Includes(RedactError(call[c].raw).message, "403")
        /\ ~Includes(RedactError(call[c].raw).message, "timeout")
        /\ call[c].result.error.message
              = "Push failed: Authentication error - check git token"

\* C11: commit() throws 'Commit operation timed out' and push() throws 'Push
\* operation timed out - check network connection' exactly when the git
\* subprocess that failed was killed by its execution timeout.
C11_TimeoutExactlyWhenKilled ==
    \A c \in Calls :
        (call[c].pc = "done" /\ call[c].op \in {"commit", "push"} /\ call[c].raw # NoError) =>
            LET timedOut == IF call[c].op = "commit"
                            THEN Threw(NewError("Commit operation timed out"))
                            ELSE Threw(NewError(
                                     "Push operation timed out - check network connection"))
            IN  (call[c].result = timedOut) <=> call[c].raw.killed

\* the public operations of the client that are modelled
PublicOps == {"cloneOrPull", "commit", "push", "status"} \cup FileOps

\* C12: every error a public operation throws has passed through _redactError
\* on its way out, whichever step failed.
C12_EveryThrowRedacted ==
    \A c \in Calls :
        (call[c].pc = "done" /\ call[c].op \in PublicOps /\ call[c].result.kind = "threw")
            => call[c].redacted

C14_CreateReusesActiveHandler ==
    [][\A c \in Calls :
          /\ (call[c].pc = "idle" /\ call'[c].op = "_createAskPassScript") =>
                IF askPassScript # Null
                THEN /\ call'[c].pc = "done"
                     /\ call'[c].result = Returned(askPassScript)
                     /\ askPassScript' = askPassScript
                     /\ disk' = disk
                ELSE /\ call'[c].pc = "write"
                     /\ call'[c].scriptPath \notin DOMAIN disk
                     /\ askPassScript' = Null
                     /\ disk' = disk
          /\ (call[c].op = "_createAskPassScript" /\ call[c].pc = "write"
                                                  /\ call'[c].pc = "record") =>
                /\ DOMAIN disk' = DOMAIN disk \cup {call[c].scriptPath}
                /\ disk'[call[c].scriptPath] = ScriptFile
                /\ \A p \in DOMAIN disk : disk'[p] = disk[p]
                /\ askPassScript' = askPassScript
          /\ (call[c].op = "_createAskPassScript" /\ call[c].pc = "record"
                                                  /\ call'[c].pc # "record") =>
                /\ call'[c].pc = "done"
                /\ call'[c].result = Returned(call[c].scriptPath)
                /\ askPassScript' = call[c].scriptPath
                /\ disk' = disk
                /\ call[c].scriptPath \in DOMAIN disk
      ]_vars

\* _createAskPassScript has returned the path of the handler that was active
\* when it was called, without having written a file of its own
C14_Witness ==
    \E c \in Calls :
        /\ call[c].pc = "done"
        /\ call[c].op = "_createAskPassScript"
        /\ call[c].scriptPath = ""
        /\ call[c].result.kind = "returned"
        /\ call[c].result.value = askPassScript
        /\ askPassScript \in DOMAIN disk

C17_HandlerFilesOwnerOnly ==
    \A p \in DOMAIN disk : disk[p].mode = "0700"

\* a handler file is on disk while a git subprocess runs
C17_Witness ==
    \E c \in Calls :
        /\ call[c].pc \in {"pull", "clone", "add", "commit", "push"}
        /\ call[c].env.GIT_ASKPASS \in DOMAIN disk
        /\ disk[call[c].env.GIT_ASKPASS].mode = "0700"

\* the pcs at which a credentialed git subprocess of the call is running
Running == {"pull", "clone", "add", "commit", "push"}

\* the stage of a remote-touching call: 0 idle, 1 acquiring, 2 credential
\* acquired, 3 subprocess running, 4 releasing, 5 finished
Stage(pc) ==
    IF pc = "idle" THEN 0
    ELSE IF pc \in {"mkdir", "write", "record"} THEN 1
    ELSE IF pc = "probe" THEN 2
    ELSE IF pc \in Running THEN 3
    ELSE IF pc \in {"unlink", "clear"} THEN 4
    ELSE 5

\* what holds at each stage of a call that is alone on its client
StageInvariant ==
    \A c \in Calls :
        call[c].op \in RemoteOps =>
            /\ Stage(call[c].pc) <= 1 => call[c].started = <<>>
            /\ Stage(call[c].pc) \in {2, 3} =>
                  /\ askPassScript # Null
                  /\ call[c].env.GIT_ASKPASS = askPassScript
                  /\ askPassScript \in DOMAIN disk
            /\ Stage(call[c].pc) = 3 =>
                  call[c].started[Len(call[c].started)].env.GIT_ASKPASS \in DOMAIN disk
            /\ Stage(call[c].pc) = 4 =>
                  /\ call[c].result = NoResult
                  /\ call[c].pend # NoResult
            /\ Stage(call[c].pc) = 5 =>
                  /\ askPassScript = Null
                  /\ DOMAIN disk = {}

\* what a step of such a call may do
StageStep ==
    \A c \in Calls :
        (call[c].op \in RemoteOps \/ call'[c].op \in RemoteOps) =>
            \* the stages are passed in their order, and the call ends idle
            /\ \/ Stage(call'[c].pc) >= Stage(call[c].pc)
               \/ call[c].pc = "done" /\ call'[c].pc = "idle"
            \* a subprocess is started with the handler file on disk
            /\ Len(call'[c].started) > Len(call[c].started) =>
                  /\ Stage(call'[c].pc) = 3
                  /\ call'[c].started[Len(call'[c].started)].env.GIT_ASKPASS
                        \in DOMAIN disk \cap DOMAIN disk'
            \* the handler file is unlinked by the release, and only there
            /\ DOMAIN disk' # DOMAIN disk \cup DOMAIN disk' =>
                  (call[c].pc = "unlink" /\ call'[c].pc = "clear")
            \* the slot is cleared by the release, after the unlink, before
            \* the caller has the result
            /\ (askPassScript # Null /\ askPassScript' = Null) =>
                  (call[c].pc = "clear" /\ call'[c].pc = "done"
                                        /\ call[c].target \notin DOMAIN disk)

\* C19: a cloneOrPull, commit or push made while no other call of the client
\* is in flight passes idle, credential acquired, subprocess running, result,
\* credential released, idle in this order: no git subprocess starts before
\* the handler file exists, the file named in GIT_ASKPASS exists while the
\* subprocess runs, and the release comes after the last subprocess and
\* before the call returns.
C19_AcquireRunReleaseOrder == []StageInvariant /\ [][StageStep]_vars

\* a commit has run git add and git commit with the handler on disk and has
\* returned with the handler released
C19_Witness ==
    \E c \in Calls :
        /\ call[c].pc = "done"
        /\ call[c].op = "commit"
        /\ Len(call[c].started) = 2
        /\ call[c].result.kind = "returned"
        /\ call[c].env.GIT_ASKPASS \notin DOMAIN disk
        /\ askPassScript = Null

\* C15: _cleanupAskPassScript never throws: called with no handler active it
\* returns at once; otherwise its fs.unlink ends, whether or not the file was
\* still there, and when it returns the slot is null and the file it
\* unlinked does not exist.
C15_ReleaseIdempotent ==
    [][\A c \in Calls :
          /\ call'[c].op = "_cleanupAskPassScript" => call'[c].result.kind # "threw"
          /\ (call[c].pc = "idle" /\ call'[c].op = "_cleanupAskPassScript") =>
                IF askPassScript = Null
                THEN /\ call'[c].pc = "done"
                     /\ call'[c].result = Returned("")
                     /\ askPassScript' = Null
                     /\ disk' = disk
                ELSE /\ call'[c].pc = "unlink"
                     /\ call'[c].target = askPassScript
          /\ (call[c].pc = "unlink" /\ call'[c].pc # "unlink") =>
                /\ call'[c].pc = "clear"
                /\ call[c].target \notin DOMAIN disk'
          /\ (call[c].pc = "clear" /\ call'[c].pc # "clear") =>
                /\ askPassScript' = Null
                /\ call[c].target \notin DOMAIN disk'
                /\ call[c].op = "_cleanupAskPassScript" =>
                      (call'[c].pc = "done" /\ call'[c].result = Returned(""))
      ]_vars

\* a _cleanupAskPassScript whose fs.unlink found the file already removed has
\* returned
C15_Witness ==
    \E c \in Calls :
        /\ call[c].pc = "done"
        /\ call[c].op = "_cleanupAskPassScript"
        /\ call[c].swallowed # NoError
        /\ call[c].result = Returned("")
        /\ askPassScript = Null

\* the handler files of the client on disk
HandlerFiles == DOMAIN disk

\* C20: with cloneOrPull, commit and push overlapping in any way on one
\* client, at most one handler file of the client is on disk at any time, and
\* when every call has returned none is left and the slot is null.
C20_AtMostOneHandlerFile ==
    /\ Cardinality(HandlerFiles) <= 1
    /\ AllIdle => (HandlerFiles = {} /\ askPassScript = Null)

\* the handler paths each client holds: in its slot, being written, being
\* unlinked, or named in the GIT_ASKPASS of a subprocess it has started
OwnPaths ==
    ({askPassScript} \cup {call[c].scriptPath : c \in Calls}
                     \cup {call[c].target : c \in Calls}
                     \cup {call[c].env.GIT_ASKPASS : c \in Calls}) \ {""}
PeerPaths == {peer.askPassScript, peer.scriptPath, peer.target} \ {""}

\* the files at these paths are the same before and after the step
SameFiles(paths) ==
    \A p \in paths :
        /\ (p \in DOMAIN disk) <=> (p \in DOMAIN disk')
        /\ p \in DOMAIN disk => disk'[p] = disk[p]

\* the paths a subprocess works on: its cwd and the target of git clone
PathsUsed(sub) == {sub.cwd} \cup {sub.args[i] : i \in 1..Len(sub.args)}

\* C18: of two clients that differ in projectId or in tempDir, a step of one
\* leaves the other's slot and the other's handler files as they were, and
\* no subprocess of one works on the other's localPath.
C18_ClientsIndependent ==
    /\ [](/\ LocalPath # PeerLocalPath
          /\ \A c \in Calls : \A i \in 1..Len(call[c].started) :
                PeerLocalPath \notin PathsUsed(call[c].started[i])
          /\ \A i \in 1..Len(peer.started) :
                LocalPath \notin PathsUsed(peer.started[i])
          /\ OwnPaths \cap PeerPaths = {})
    /\ [][/\ call' # call =>
                /\ peer'.askPassScript = peer.askPassScript
                /\ SameFiles(PeerPaths)
          /\ peer' # peer =>
                /\ askPassScript' = askPassScript
                /\ SameFiles(OwnPaths)
         ]_vars

\* both clients have a git push running, each with its own handler file on
\* disk, in the same working root
C18_Witness ==
    /\ peer.pc = "push"
    /\ peer.tempDir = TempDir
    /\ peer.askPassScript \in DOMAIN disk
    /\ \E c \in Calls :
          /\ call[c].pc = "push"
          /\ askPassScript \in DOMAIN disk
          /\ askPassScript # peer.askPassScript
          /\ disk[askPassScript] # disk[peer.askPassScript]


\* a step in which call c passes through _createAskPassScript while a handler
\* is recorded in the slot
ReusesRecordedHandler(c) ==
    (/\ askPassScript # Null
     /\ \/ call[c].pc = "idle" /\ call'[c].op \in {"commit", "push"}
        \/ call[c].pc = "mkdir" /\ call'[c].pc # "mkdir" /\ call[c].op = "cloneOrPull")
    => /\ call'[c].result = NoResult
       /\ call'[c].scriptPath = ""
       /\ call'[c].env.GIT_ASKPASS = askPassScript
       /\ call'[c].pc \in Running \cup {"probe"}
       /\ disk' = disk
       /\ askPassScript' = askPassScript

\* C21: a cloneOrPull, commit or push that reaches _createAskPassScript while
\* another call has a handler recorded in the slot is not rejected: it goes
\* on with the recorded path in its GIT_ASKPASS and writes no file of its own.
\* The state in which one call's release has unlinked the file that another
\* call's running subprocess was started with is C21_Witness.
C21_LaterCallReusesHandler == [][\A c \in Calls : ReusesRecordedHandler(c)]_vars

\* one call's finally step has unlinked the handler file while the git
\* subprocess of another call runs with GIT_ASKPASS naming that file
C21_Witness ==
    \E c, d \in Calls :
        /\ c # d
        /\ call[c].pc = "clear"
        /\ call[c].swallowed = NoError
        /\ call[d].pc \in Running
        /\ call[d].scriptPath = ""
        /\ call[d].started[Len(call[d].started)].env.GIT_ASKPASS = call[c].target
        /\ call[c].target \notin DOMAIN disk


(***************************************************************************)
(* Termination of commit and push                                          *)
(***************************************************************************)
\* the subprocess call c waits for was started with a timeout: execFile's
\* timer ends it when git does not end by itself (lines 193, 198, 221)
Timed(c) ==
    /\ call[c].started # <<>>
    /\ call[c].started[Len(call[c].started)].timeout > 0

\* the end of the git subprocess of call c
SubprocessEnds(c) ==
    PullExit(c) \/ CloneExit(c) \/ AddExit(c) \/ CommitExit(c) \/ PushExit(c)

\* Timers fire, filesystem calls complete and a resumed async function runs
\* on.  A subprocess started without a timeout may run for ever.
Fairness ==
    \A c \in Calls :
        /\ WF_vars(Timed(c) /\ SubprocessEnds(c))
        /\ WF_vars(\E ok \in BOOLEAN : WriteFileDone(c, ok))
        /\ WF_vars(RecordAskPass(c))
        /\ WF_vars(UnlinkDone(c))
        /\ WF_vars(ClearAskPass(c))

SpecLive == Init /\ [][Next]_vars /\ Fairness

\* every git subprocess of a commit or push in flight has a timeout, and a
\* call whose subprocess the timer has killed ends in a throw
TimeoutsSet ==
    \A c \in Calls :
        call[c].op \in {"commit", "push"} =>
            /\ \A i \in 1..Len(call[c].started) : call[c].started[i].timeout > 0
            /\ (call[c].raw.killed /\ call[c].pc = "done") =>
                  call[c].result.kind = "threw"

\* call c has finished and no handler is left
FinishedReleased(c) ==
    /\ call[c].pc = "done"
    /\ call[c].result # NoResult
    /\ askPassScript = Null
    /\ DOMAIN disk = {}

TimeoutsSetOrBenign ==
    \A c \in Calls :
        call[c].op \in {"commit", "push"} =>
            /\ \A i \in 1..Len(call[c].started) : call[c].started[i].timeout > 0
            /\ (call[c].raw.killed /\ call[c].pc = "done") =>
                  \/ call[c].result.kind = "threw"
                  \/ /\ call[c].op = "commit"
                     /\ Includes(call[c].raw.message \o " " \o call[c].raw.stdout, Marker)
                     /\ call[c].result = Returned("Nothing to commit, working tree clean")

C23_ValidatedPathRelative ==
    \A c \in Calls :
        (call[c].op = "validateFilePath" /\ call[c].pc = "done") =>
            \/ call[c].result.kind = "threw"
            \/ /\ call[c].result.kind = "returned"
               /\ ~OccursAt(call[c].result.value, 1, "/")
               /\ ~Includes(call[c].result.value, "..")

\* the headers of a text in document order, as sectionRegex finds them
RECURSIVE HeadersFrom(_, _)
HeadersFrom(s, from) ==
    LET found == Exec(s, from)
    IN  IF found = <<>> THEN <<>>
        ELSE <<found[1]>> \o HeadersFrom(s, found[1].index + Len(found[1].text))

\* one entry per header, its content the trimmed text between the end of the
\* header and the start of the next one, or the end of the text
SectionsBetweenHeaders(s) ==
    LET h == HeadersFrom(s, 0)
    IN  [i \in 1..Len(h) |->
            [type       |-> h[i].type,
             title      |-> h[i].title,
             startIndex |-> h[i].index,
             content    |-> Trim(SubSeq(s, h[i].index + Len(h[i].text) + 1,
                                        IF i < Len(h) THEN h[i + 1].index ELSE Len(s)))]]

\* C24: for a file whose text holds the sectioning headers h1..hn,
\* getSections returns n entries in document order with the matching type,
\* title and start index, and the content of entry i is the trimmed text
\* between the end of header i and the start of header i+1 (the end of the
\* file for the last entry), with no character of header i in it and no
\* character behind it left out.
C24_SectionsSplitAtHeaders ==
    \A c \in Calls :
        (call[c].op = "getSections" /\ call[c].pc = "done"
                                     /\ call[c].result.kind = "returned") =>
            call[c].sections = SectionsBetweenHeaders(call[c].content)

=============================================================================
